---- MODULE Spec2Model ----
(***************************************************************************)
(* The gateway of src/frontend/ui.py: a Flask application whose views      *)
(* forward each inbound request to the backend with the requests library   *)
(* and relay the reply.                                                     *)
(*                                                                         *)
(* A worker (Req) handles one inbound request at a time.  The state is the *)
(* position of each worker's view function and the messages in flight:     *)
(* the outbound request on the worker's backend connection, the backend's  *)
(* reply on that connection, and the response delivered to the caller.     *)
(*                                                                         *)
(* Texts (bodies on the wire) and the Python values they are parsed into   *)
(* are different things: json.loads, json.dumps, the URL quoting of         *)
(* requests and the path decoding of the WSGI layer are modelled by what   *)
(* they do.  Library behaviour is that of Flask 2.2 or later and of       *)
(* requests 2.26 or later.                                                 *)
(***************************************************************************)
EXTENDS Integers, Sequences, FiniteSets, TLC

\* The worker threads of the server.  Workers share nothing, and every
\* property below is about one request or about a pair of requests in
\* progress at once, so two workers show every case.
Req == {1, 2}

\* ui.py line 6.
BACKEND_URL == "http://localhost:8080"

(***************************************************************************)
(* JSON texts and Python values                                            *)
(***************************************************************************)
\* Literal tokens of a JSON text.  "nan" is the literal NaN, which is not
\* JSON but which Python's decoder accepts.
Str(s)  == [k |-> "str", s |-> s]
Num(s)  == [k |-> "num", s |-> s]
Bool(s) == [k |-> "bool", s |-> s]
Null    == [k |-> "null", s |-> "null"]
NaN     == [k |-> "nan", s |-> "NaN"]

\* Body texts.
Obj(m)   == [t |-> "object", members |-> m]
Arr(i)   == [t |-> "array", items |-> i]
Lit(l)   == [t |-> "literal", lit |-> l]
Garbage  == [t |-> "garbage"]
Bytes(b) == [t |-> "bytes", b |-> b]
Text(s)  == [t |-> "text", s |-> s]
NoBody   == [t |-> "nobody"]

\* The order Python's sorted() puts the keys used here in.
KeyOrder == <<"deleted", "error", "id", "load", "name", "status">>

KeyRank(key) == CHOOSE i \in 1..Len(KeyOrder) : KeyOrder[i] = key

\* Python values: a dict keeps its items in insertion order.
PyDict(items) == [t |-> "dict", items |-> items]
PyList(items) == [t |-> "list", items |-> items]
PyScalar(l)   == [t |-> l.k, s |-> l.s]
DecodeError   == [t |-> "JSONDecodeError"]

\* d[key] = value on an insertion-ordered dict.
DictSet(items, key, value) ==
    IF \E i \in 1..Len(items) : items[i][1] = key
    THEN [i \in 1..Len(items) |->
            IF items[i][1] = key THEN <<key, value>> ELSE items[i]]
    ELSE Append(items, <<key, value>>)

RECURSIVE DictFromPairs(_, _)
DictFromPairs(members, acc) ==
    IF members = << >> THEN acc
    ELSE DictFromPairs(Tail(members),
                       DictSet(acc, Head(members)[1], Head(members)[2]))

\* json.loads, as used by Flask's request.json and by requests'
\* Response.json(): objects (a repeated key keeps its last value), arrays
\* and scalars parse, NaN included; anything else raises.
Loads(text) ==
    CASE text.t = "object"  -> PyDict(DictFromPairs(text.members, << >>))
      [] text.t = "array"   -> PyList(text.items)
      [] text.t = "literal" -> PyScalar(text.lit)
      [] OTHER              -> DecodeError

RECURSIVE SortItems(_)
SortItems(items) ==
    IF items = << >> THEN << >>
    ELSE LET m == CHOOSE i \in 1..Len(items) :
                    \A j \in 1..Len(items) :
                        KeyRank(items[i][1]) <= KeyRank(items[j][1])
             rest == [i \in 1..(Len(items) - 1) |->
                        IF i < m THEN items[i] ELSE items[i + 1]]
         IN  <<items[m]>> \o SortItems(rest)

\* json.dumps(value, sort_keys=sortKeys).
Dumps(value, sortKeys) ==
    CASE value.t = "dict" ->
            Obj(IF sortKeys THEN SortItems(value.items) ELSE value.items)
      [] value.t = "list" -> Arr(value.items)
      [] OTHER -> Lit([k |-> value.t, s |-> value.s])

\* Whether a Python value holds a float NaN.
HasNaN(value) ==
    CASE value.t = "dict" ->
            \E i \in 1..Len(value.items) : value.items[i][2].k = "nan"
      [] value.t = "list" ->
            \E i \in 1..Len(value.items) : value.items[i].k = "nan"
      [] OTHER -> value.t = "nan"

(***************************************************************************)
(* Paths and URLs: sequences of tokens, a token being a run of plain       *)
(* characters, one delimiter or one percent escape                         *)
(***************************************************************************)
\* Percent-decoding of one token (the WSGI layer decodes PATH_INFO before
\* routing; the backend does the same on what it receives).
PctDecode(tok) ==
    CASE tok = "%3F" -> "?"
      [] tok = "%23" -> "#"
      [] tok = "%2F" -> "/"
      [] tok = "%20" -> " "
      [] OTHER -> tok

Decode(path) == [i \in 1..Len(path) |-> PctDecode(path[i])]

\* requests re-quotes what is illegal in a URL; '?' and '#' are legal
\* there, as delimiters.
Quote(tok) == IF tok = " " THEN "%20" ELSE tok

HasSlash(tok) == tok \in {"/", "/status", "/screenshot"}

NoQuery == <<"no query">>

\* First position of a token of `delims` in `url`, or Len(url) + 1.
FirstOf(url, delims) ==
    IF \E i \in 1..Len(url) : url[i] \in delims
    THEN CHOOSE i \in 1..Len(url) :
            url[i] \in delims /\ \A j \in 1..(i - 1) : url[j] \notin delims
    ELSE Len(url) + 1

\* PreparedRequest.prepare_url: the path ends at the first '?' or '#', the
\* query runs from a '?' to the first '#', the fragment is not sent.
PrepareUrl(url) ==
    LET pathEnd == FirstOf(url, {"?", "#"})
        fragAt  == FirstOf(url, {"#"})
    IN  [base  |-> url[1],
         path  |-> [i \in 1..(pathEnd - 2) |-> Quote(url[i + 1])],
         query |-> IF pathEnd <= Len(url) /\ url[pathEnd] = "?"
                   THEN [i \in 1..(fragAt - pathEnd - 1) |->
                            Quote(url[pathEnd + i])]
                   ELSE NoQuery]

\* The json= argument of requests: None sends no body at all, a value is
\* serialised with allow_nan=False, in insertion order.
NoData == [t |-> "no json argument"]

PrepareBody(data) ==
    CASE data = NoData \/ data.t = "null" ->
            [t |-> "ok", ctype |-> "", body |-> NoBody]
      [] HasNaN(data) -> [t |-> "InvalidJSONError"]
      [] OTHER ->
            [t |-> "ok", ctype |-> "application/json",
             body |-> Dumps(data, FALSE)]

(***************************************************************************)
(* Routing                                                                 *)
(***************************************************************************)
Rule(endpoint, method, prefix, arg, suffix) ==
    [endpoint |-> endpoint, method |-> method, prefix |-> prefix,
     arg |-> arg, suffix |-> suffix]

\* The @app.route decorators.
url_map ==
    { Rule("index", "GET", "/", "none", ""),
      Rule("send_static", "GET", "/static/", "path", ""),
      Rule("get_instances", "GET", "/api/v1/instances", "none", ""),
      Rule("create_instance", "POST", "/api/v1/instances", "none", ""),
      Rule("delete_instance", "DELETE", "/api/v1/instances/", "string", ""),
      Rule("update_instance_status", "PUT", "/api/v1/instances/", "string",
           "/status"),
      Rule("get_instance_screenshot", "GET", "/api/v1/instances/", "string",
           "/screenshot"),
      Rule("get_flows", "GET", "/api/v1/flows", "none", ""),
      Rule("create_flow", "POST", "/api/v1/flows", "none", ""),
      Rule("delete_flow", "DELETE", "/api/v1/flows/", "string", ""),
      Rule("execute_flows", "POST", "/api/v1/flows/execute", "none", "") }

RuleOf(endpoint) == CHOOSE rule \in url_map : rule.endpoint = endpoint

\* The part of a decoded path a rule's converter would capture.
Captured(rule, dp) ==
    LET n == Len(dp) - 1 - (IF rule.suffix = "" THEN 0 ELSE 1)
    IN  IF n < 0 THEN << >> ELSE [i \in 1..n |-> dp[i + 1]]

\* Whether a rule matches a path: the path is decoded first; <id> captures
\* [^/]+ and <path:path> captures anything that is not empty.
PathMatches(rule, path) ==
    LET dp == Decode(path)
    IN  IF rule.arg = "none" THEN dp = <<rule.prefix>>
        ELSE /\ Len(dp) >= 1
             /\ dp[1] = rule.prefix
             /\ rule.suffix # "" => dp[Len(dp)] = rule.suffix
             /\ Captured(rule, dp) # << >>
             /\ rule.arg = "string" =>
                    \A i \in 1..Len(Captured(rule, dp)) :
                        ~HasSlash(Captured(rule, dp)[i])

\* The endpoint a request is dispatched to, or the error routing raises.
Dispatch(q) ==
    IF \E rule \in url_map : PathMatches(rule, q.path) /\ rule.method = q.method
    THEN (CHOOSE rule \in url_map :
              PathMatches(rule, q.path) /\ rule.method = q.method).endpoint
    ELSE IF \E rule \in url_map : PathMatches(rule, q.path)
         THEN "MethodNotAllowed"
         ELSE "NotFound"

\* The view's argument.
ViewArg(q) == Captured(RuleOf(Dispatch(q)), Decode(q.path))

(***************************************************************************)
(* Inputs: what callers send and what the backend answers                  *)
(***************************************************************************)
\* Path parameters as callers send them.
IdWire ==
    { <<"42">>, <<"a", "%20", "b">>, <<"a", "%3F", "b">>,
      <<"a", "%23", "b">>, <<"a", "%2F", "b">> }

StaticWire == { <<"app.js">>, <<"missing.js">> }

\* The files of the static directory.
StaticFiles == { <<"app.js">> }

\* Content type and body of the requests that carry one.
Payload ==
    { <<"application/json", Obj(<<<<"name", Str("vm1")>>>>)>>,
      <<"application/json",
        Obj(<<<<"status", Str("on")>>, <<"name", Str("vm1")>>,
              <<"status", Str("off")>>>>)>>,
      <<"application/json", Lit(Null)>>,
      <<"application/json", Obj(<<<<"load", NaN>>>>)>>,
      <<"application/json", Garbage>>,
      <<"text/plain", Obj(<<<<"name", Str("vm1")>>>>)>> }

PathsOf(rule) ==
    CASE rule.arg = "none" -> { <<rule.prefix>> }
      [] rule.arg = "path" -> { <<rule.prefix>> \o p : p \in StaticWire }
      [] OTHER ->
            { <<rule.prefix>> \o id
                \o (IF rule.suffix = "" THEN << >> ELSE <<rule.suffix>>) :
              id \in IdWire }

Request(method, path, ctype, body) ==
    [method |-> method, path |-> path, ctype |-> ctype, body |-> body]

\* The inbound requests: every route with every parameter and payload, and
\* one request no route takes.
Inbound ==
    UNION { IF rule.method \in {"POST", "PUT"}
            THEN { Request(rule.method, p, pl[1], pl[2]) :
                     p \in PathsOf(rule), pl \in Payload }
            ELSE { Request(rule.method, p, "", NoBody) : p \in PathsOf(rule) } :
            rule \in url_map }
    \cup { Request("DELETE", <<"/api/v1/instances">>, "", NoBody) }

Reply(status, ctype, body) ==
    [t |-> "reply", status |-> status, ctype |-> ctype, body |-> body]

\* What the backend may answer, on any route.
BackendReplies ==
    { Reply(200, "application/json",
            Obj(<<<<"name", Str("vm1")>>, <<"id", Str("abc123")>>>>)),
      Reply(404, "application/json", Obj(<<<<"error", Str("not found")>>>>)),
      Reply(200, "application/json", Arr(<<Str("vm1"), Str("vm2")>>)),
      Reply(200, "application/json", Lit(Null)),
      Reply(404, "application/json", Lit(Null)),
      Reply(404, "application/json", Lit(Str("not found"))),
      Reply(200, "application/json", Obj(<<<<"load", NaN>>>>)),
      Reply(502, "text/html", Garbage),
      Reply(200, "image/png", Bytes("PNG")) }

\* The inbound requests each endpoint (or routing error) receives.
Routed ==
    [e \in {rule.endpoint : rule \in url_map} \cup {"NotFound", "MethodNotAllowed"}
        |-> {q \in Inbound : Dispatch(q) = e}]

(***************************************************************************)
(* State                                                                   *)
(***************************************************************************)
VARIABLES
    pc,        \* pc[r]: "idle", the view worker r is blocked in, or "done"
    outWire,   \* outWire[r]: the outbound request in flight on r's connection
    inWire,    \* inWire[r]: the backend's reply (or the connection's failure)
    response,  \* response[r]: what the caller of r's request received
    sent       \* sent[r]: outbound requests issued for r's current request

vars == <<pc, outWire, inWire, response, sent>>

NoMsg == [t |-> "none"]

ConnectionError == [t |-> "ConnectionError"]

Init ==
    /\ pc = [r \in Req |-> "idle"]
    /\ outWire = [r \in Req |-> NoMsg]
    /\ inWire = [r \in Req |-> NoMsg]
    /\ response = [r \in Req |-> NoMsg]
    /\ sent = [r \in Req |-> 0]

(***************************************************************************)
(* What Flask and requests do around a view                                *)
(***************************************************************************)
\* A response as the caller sees it (status, ctype, body), with where it
\* came from: the view, the backend reply it was built from, and, when no
\* backend reply was involved, the inbound request.
Response(status, ctype, body, endpoint, reply, cause) ==
    [t |-> "response", status |-> status, ctype |-> ctype, body |-> body,
     endpoint |-> endpoint, reply |-> reply, cause |-> cause]

\* The framework's page for an exception: an HTTPException keeps its code,
\* anything else is 500.
ErrorPage(status) == [status |-> status, ctype |-> "text/html", body |-> Text("error page")]

\* The view ends without a backend reply: it returned, or it raised.
Finish(r, q, endpoint, out) ==
    /\ pc' = [pc EXCEPT ![r] = "done"]
    /\ response' = [response EXCEPT ![r] =
            Response(out.status, out.ctype, out.body, endpoint, NoMsg, q)]
    /\ UNCHANGED <<outWire, inWire, sent>>

\* request.get_json(silent=True) in the place of request.json: a body that
\* cannot be read as JSON is None.
RequestJsonSilent(q) ==
    IF q.ctype # "application/json" \/ Loads(q.body) = DecodeError
    THEN PyScalar(Null)
    ELSE Loads(q.body)

\* request.json: 415 unless the request says it is JSON, 400 when the
\* decoder rejects the body, else the parsed value.
RequestJson(q) ==
    IF q.ctype # "application/json" THEN [t |-> "abort", status |-> 415]
    ELSE IF Loads(q.body) = DecodeError THEN [t |-> "abort", status |-> 400]
    ELSE Loads(q.body)

\* requests.get/post/put/delete(url, json=data), up to the point where the
\* call blocks on the backend; a body that cannot be serialised raises
\* before anything is sent.
Forward(r, q, endpoint, method, url, data) ==
    LET target == PrepareUrl(url)
        payload == PrepareBody(data)
    IN  IF payload.t # "ok" THEN Finish(r, q, endpoint, ErrorPage(500))
        ELSE /\ outWire' = [outWire EXCEPT ![r] =
                    [t |-> "request", conn |-> r, method |-> method,
                     base |-> target.base, path |-> target.path,
                     query |-> target.query, ctype |-> payload.ctype,
                     body |-> payload.body, cause |-> q]]
             /\ sent' = [sent EXCEPT ![r] = @ + 1]
             /\ pc' = [pc EXCEPT ![r] = endpoint]
             /\ UNCHANGED <<inWire, response>>

\* A connection shared between the workers: the blocked call returns
\* whatever reply is there, another worker's first.
RecvAny(r) ==
    IF \E o \in Req \ {r} : inWire[o] # NoMsg
    THEN inWire[CHOOSE o \in Req \ {r} : inWire[o] # NoMsg]
    ELSE inWire[r]

\* What the blocked call returns: the reply on the worker's own connection.
Recv(r) == inWire[r]

\* response.json() inside a try/except that falls back to an empty dict.
ResponseJsonOrEmpty(reply) ==
    IF Loads(reply.body) = DecodeError THEN PyDict(<< >>) ELSE Loads(reply.body)

\* response.json().
ResponseJson(reply) == Loads(reply.body)

\* Flask's make_response on what a view returns: a dict or a list becomes
\* JSON with sorted keys, a str becomes the text of an HTML response, and
\* any other value is a TypeError.
MakeResponse(rv) ==
    CASE rv.t \in {"dict", "list"} ->
            [status |-> 200, ctype |-> "application/json", body |-> Dumps(rv, TRUE)]
      [] rv.t = "str" ->
            [status |-> 200, ctype |-> "text/html", body |-> Text(rv.s)]
      [] OTHER -> ErrorPage(500)

\* return response.json()
JsonResult(reply) ==
    IF ResponseJson(reply) = DecodeError THEN ErrorPage(500)
    ELSE MakeResponse(ResponseJson(reply))

\* return response.content, response.status_code,
\*        {'Content-Type': response.headers['Content-Type']}
ScreenshotRelay(reply) ==
    [status |-> reply.status, ctype |-> reply.ctype, body |-> reply.body]

\* return response.content, 200, {'Content-Type': 'image/png'}
ScreenshotResult(reply) ==
    [status |-> 200, ctype |-> "image/png", body |-> reply.body]

\* The blocked call returns or raises, and the view runs to its end.
Return(r, endpoint, out) ==
    /\ pc[r] = endpoint
    /\ inWire[r] # NoMsg
    /\ pc' = [pc EXCEPT ![r] = "done"]
    /\ response' = [response EXCEPT ![r] =
            Response(out.status, out.ctype, out.body, endpoint, Recv(r), NoMsg)]
    /\ inWire' = [inWire EXCEPT ![r] = NoMsg]
    /\ UNCHANGED <<outWire, sent>>

ReturnJson(r, endpoint) ==
    Return(r, endpoint,
           IF Recv(r) = ConnectionError THEN ErrorPage(500)
           ELSE JsonResult(Recv(r)))

\* The URL a view builds with its f-string:
\* f"{BACKEND_URL}<before>{id}<after>", or f"{BACKEND_URL}<before>".
Url(before, id, after) ==
    <<BACKEND_URL, before>> \o id \o (IF after = "" THEN << >> ELSE <<after>>)

(***************************************************************************)
(* The views                                                               *)
(***************************************************************************)
index(r) ==
    /\ pc[r] = "idle"
    /\ \E q \in Routed["index"] :
          Finish(r, q, "index",
                 [status |-> 200, ctype |-> "text/html", body |-> Text("index.html")])

send_static(r) ==
    /\ pc[r] = "idle"
    /\ \E q \in Routed["send_static"] :
          Finish(r, q, "send_static",
                 IF ViewArg(q) \in StaticFiles
                 THEN [status |-> 200, ctype |-> "application/javascript",
                       body |-> Text("app.js")]
                 ELSE ErrorPage(404))

get_instances(r) ==
    \/ /\ pc[r] = "idle"
       /\ \E q \in Routed["get_instances"] :
             Forward(r, q, "get_instances", "GET",
                     Url("/api/v1/instances", << >>, ""), NoData)
    \/ ReturnJson(r, "get_instances")

create_instance(r) ==
    \/ /\ pc[r] = "idle"
       /\ \E q \in Routed["create_instance"] :
             LET data == RequestJson(q)
             IN  IF data.t = "abort"
                 THEN Finish(r, q, "create_instance", ErrorPage(data.status))
                 ELSE Forward(r, q, "create_instance", "POST",
                              Url("/api/v1/instances", << >>, ""), data)
    \/ ReturnJson(r, "create_instance")

delete_instance(r) ==
    \/ /\ pc[r] = "idle"
       /\ \E q \in Routed["delete_instance"] :
             Forward(r, q, "delete_instance", "DELETE",
                     Url("/api/v1/instances/", ViewArg(q), ""), NoData)
    \/ ReturnJson(r, "delete_instance")

update_instance_status(r) ==
    \/ /\ pc[r] = "idle"
       /\ \E q \in Routed["update_instance_status"] :
             LET data == RequestJson(q)
             IN  IF data.t = "abort"
                 THEN Finish(r, q, "update_instance_status", ErrorPage(data.status))
                 ELSE Forward(r, q, "update_instance_status", "PUT",
                              Url("/api/v1/instances/", ViewArg(q), "/status"), data)
    \/ ReturnJson(r, "update_instance_status")

get_instance_screenshot(r) ==
    \/ /\ pc[r] = "idle"
       /\ \E q \in Routed["get_instance_screenshot"] :
             Forward(r, q, "get_instance_screenshot", "GET",
                     Url("/api/v1/instances/", ViewArg(q),
                         "/screenshot"), NoData)
    \/ Return(r, "get_instance_screenshot",
              IF Recv(r) = ConnectionError THEN ErrorPage(500)
              ELSE ScreenshotResult(Recv(r)))

get_flows(r) ==
    \/ /\ pc[r] = "idle"
       /\ \E q \in Routed["get_flows"] :
             Forward(r, q, "get_flows", "GET", Url("/api/v1/flows", << >>, ""), NoData)
    \/ ReturnJson(r, "get_flows")

create_flow(r) ==
    \/ /\ pc[r] = "idle"
       /\ \E q \in Routed["create_flow"] :
             LET data == RequestJson(q)
             IN  IF data.t = "abort"
                 THEN Finish(r, q, "create_flow", ErrorPage(data.status))
                 ELSE Forward(r, q, "create_flow", "POST",
                              Url("/api/v1/flows", << >>, ""), data)
    \/ ReturnJson(r, "create_flow")

delete_flow(r) ==
    \/ /\ pc[r] = "idle"
       /\ \E q \in Routed["delete_flow"] :
             Forward(r, q, "delete_flow", "DELETE",
                     Url("/api/v1/flows/", ViewArg(q), ""), NoData)
    \/ ReturnJson(r, "delete_flow")

execute_flows(r) ==
    \/ /\ pc[r] = "idle"
       /\ \E q \in Routed["execute_flows"] :
             LET data == RequestJson(q)
             IN  IF data.t = "abort"
                 THEN Finish(r, q, "execute_flows", ErrorPage(data.status))
                 ELSE Forward(r, q, "execute_flows", "POST",
                              Url("/api/v1/flows/execute", << >>, ""), data)
    \/ ReturnJson(r, "execute_flows")

\* A request no rule takes never reaches a view.
NotRouted(r) ==
    /\ pc[r] = "idle"
    /\ \/ \E q \in Routed["NotFound"] : Finish(r, q, "NotFound", ErrorPage(404))
       \/ \E q \in Routed["MethodNotAllowed"] :
             Finish(r, q, "MethodNotAllowed", ErrorPage(405))

\* The response has gone to the caller; the worker takes the next request.
Teardown(r) ==
    /\ pc[r] = "done"
    /\ pc' = [pc EXCEPT ![r] = "idle"]
    /\ response' = [response EXCEPT ![r] = NoMsg]
    /\ sent' = [sent EXCEPT ![r] = 0]
    /\ UNCHANGED <<outWire, inWire>>

(***************************************************************************)
(* The backend                                                             *)
(***************************************************************************)
\* The backend answers the request on the connection it came on.
BackendReply(r) ==
    /\ outWire[r] # NoMsg
    /\ \E reply \in BackendReplies :
          inWire' = [inWire EXCEPT ![r] =
                        [t |-> "reply", status |-> reply.status,
                         ctype |-> reply.ctype, body |-> reply.body,
                         answers |-> outWire[r].conn]]
    /\ outWire' = [outWire EXCEPT ![r] = NoMsg]
    /\ UNCHANGED <<pc, response, sent>>

\* The connection is refused, or the connection attempt is given up: the
\* blocked call raises ConnectionError.
BackendRefuse(r) ==
    /\ outWire[r] # NoMsg
    /\ inWire' = [inWire EXCEPT ![r] = ConnectionError]
    /\ outWire' = [outWire EXCEPT ![r] = NoMsg]
    /\ UNCHANGED <<pc, response, sent>>

\* The backend takes the request and never answers.
BackendStall(r) ==
    /\ outWire[r] # NoMsg
    /\ outWire' = [outWire EXCEPT ![r] = NoMsg]
    /\ UNCHANGED <<pc, inWire, response, sent>>

\* A step of worker r inside a view.
View(r) ==
    \/ index(r)
    \/ send_static(r)
    \/ get_instances(r)
    \/ create_instance(r)
    \/ delete_instance(r)
    \/ update_instance_status(r)
    \/ get_instance_screenshot(r)
    \/ get_flows(r)
    \/ create_flow(r)
    \/ delete_flow(r)
    \/ execute_flows(r)

Next ==
    \E r \in Req :
        \/ View(r)
        \/ NotRouted(r)
        \/ Teardown(r)
        \/ BackendReply(r)
        \/ BackendRefuse(r)
        \/ BackendStall(r)

Spec == Init /\ [][Next]_vars

(***************************************************************************)
(* Vocabulary of the properties                                            *)
(***************************************************************************)
\* The views that return response.json().
JsonViews ==
    {"get_instances", "create_instance", "delete_instance",
     "update_instance_status", "get_flows", "create_flow", "delete_flow",
     "execute_flows"}

ForwardingViews == JsonViews \cup {"get_instance_screenshot"}

\* The views that read a body, and those that take an {id}.
BodyViews ==
    {"create_instance", "update_instance_status", "create_flow", "execute_flows"}

IdViews ==
    {"delete_instance", "update_instance_status", "get_instance_screenshot",
     "delete_flow"}

\* A text that is JSON (RFC 8259): an object, an array or a scalar, with
\* no NaN in it.
IsJson(text) ==
    CASE text.t = "object" ->
            \A i \in 1..Len(text.members) : text.members[i][2].k # "nan"
      [] text.t = "array" ->
            \A i \in 1..Len(text.items) : text.items[i].k # "nan"
      [] text.t = "literal" -> text.lit.k # "nan"
      [] OTHER -> FALSE

\* A text that would be JSON if NaN were a JSON number.
IsJsonButForNaN(text) ==
    text.t \in {"object", "array", "literal"} /\ ~IsJson(text)

\* The value a JSON text denotes: an object is its key set and each key's
\* value (the last one given), whatever the order of its members.
JsonValue(text) ==
    CASE text.t = "object" ->
            LET keys == {text.members[i][1] : i \in 1..Len(text.members)}
                last(key) == CHOOSE i \in 1..Len(text.members) :
                    /\ text.members[i][1] = key
                    /\ \A j \in (i + 1)..Len(text.members) :
                            text.members[j][1] # key
            IN  [t |-> "object",
                 value |-> [key \in keys |-> text.members[last(key)][2]]]
      [] text.t \in {"array", "literal"} -> text
      [] OTHER -> [t |-> "not JSON"]

SameJson(a, b) == IsJson(a) /\ IsJson(b) /\ JsonValue(a) = JsonValue(b)

\* Worker r has answered its caller from a backend reply.
Relayed(r) == pc[r] = "done" /\ response[r].reply.t = "reply"

\* The backend took worker r's request and will never answer it.
Unanswered(r) ==
    pc[r] \in ForwardingViews /\ outWire[r] = NoMsg /\ inWire[r] = NoMsg

(***************************************************************************)
(* Properties                                                              *)
(***************************************************************************)
\* C1: on a JSON-forwarding route, whatever JSON payload the backend
\* returns (object, array, string, number, boolean or null), the body the
\* caller receives is that payload: the same JSON value.
C1_RelaysEveryJsonPayload ==
    \A r \in Req :
        (/\ Relayed(r)
         /\ response[r].endpoint \in JsonViews
         /\ IsJson(response[r].reply.body))
        => SameJson(response[r].body, response[r].reply.body)

\* C2: on a POST/PUT route, the body of the outbound request is equivalent
\* to the inbound JSON body: the same JSON value.
C2_ForwardsEveryJsonBody ==
    \A r \in Req :
        (/\ outWire[r] # NoMsg
         /\ outWire[r].cause.method \in {"POST", "PUT"}
         /\ IsJson(outWire[r].cause.body))
        => SameJson(outWire[r].body, outWire[r].cause.body)

\* C3: on the screenshot route, whatever bytes, content type and status the
\* backend returns, the caller receives those bytes unchanged with content
\* type image/png and status 200.
C3_ScreenshotRelaysBytesAsPng ==
    \A r \in Req :
        (Relayed(r) /\ response[r].endpoint = "get_instance_screenshot")
        => /\ response[r].body = response[r].reply.body
           /\ response[r].ctype = "image/png"
           /\ response[r].status = 200

\* C3's case: the backend answered the screenshot request with a 404 that
\* is not a PNG, and the caller got its bytes as a 200 image/png.
C3_Witness ==
    \E r \in Req :
        /\ Relayed(r)
        /\ response[r].endpoint = "get_instance_screenshot"
        /\ response[r].reply.status = 404
        /\ response[r].reply.ctype = "application/json"
        /\ response[r].body = response[r].reply.body
        /\ response[r].status = 200

\* C4: when the backend is unreachable, no view stays blocked on it: a view
\* whose request the backend never answers can still take a step, and a
\* view whose connection failed ends with a 5xx response.
C4_NeverBlockedOnBackend ==
    \A r \in Req :
        /\ Unanswered(r) => ENABLED View(r)
        /\ (pc[r] = "done" /\ response[r].reply = ConnectionError)
                => response[r].status >= 500

\* An inbound request whose body, if its method takes one, is JSON sent
\* as JSON.
WellFormed(q) ==
    q.method \in {"POST", "PUT"} =>
        (q.ctype = "application/json" /\ IsJson(q.body))

\* C5: a well-formed request on a forwarding route causes exactly one
\* outbound request, with the inbound method and the URL made of the base
\* URL and the inbound path; the index page and the static files cause
\* none.
C5_OneOutboundSameMethodAndPath ==
    \A r \in Req :
        /\ pc[r] \in ForwardingViews => sent[r] = 1
        /\ (/\ pc[r] = "done"
             /\ response[r].endpoint \in ForwardingViews
             /\ (response[r].cause = NoMsg \/ WellFormed(response[r].cause)))
                => sent[r] = 1
        /\ (pc[r] = "done" /\ response[r].endpoint \in {"index", "send_static"})
                => sent[r] = 0
        /\ outWire[r] # NoMsg =>
                /\ outWire[r].method = outWire[r].cause.method
                /\ outWire[r].base = "http://localhost:8080"
                /\ outWire[r].path = outWire[r].cause.path
                /\ outWire[r].query = NoQuery

\* C6: on a JSON-forwarding route, when the backend answers with an error
\* status and a JSON body, the caller receives that JSON body with status
\* 200.
C6_ErrorStatusBecomes200 ==
    \A r \in Req :
        (/\ Relayed(r)
         /\ response[r].endpoint \in JsonViews
         /\ response[r].reply.status >= 400
         /\ IsJson(response[r].reply.body))
        => /\ response[r].status = 200
           /\ SameJson(response[r].body, response[r].reply.body)

C8_IdReachesBackendAsReceived ==
    \A r \in Req :
        (outWire[r] # NoMsg /\ Dispatch(outWire[r].cause) \in IdViews)
        => /\ Decode(outWire[r].path) = Decode(outWire[r].cause.path)
           /\ outWire[r].query = NoQuery

\* C9, as stated: on a JSON-forwarding route, a backend body that is not
\* JSON ends in a 5xx error page, after one outbound request.
C9_NonJsonReplyIs5xx ==
    \A r \in Req :
        (/\ Relayed(r)
         /\ response[r].endpoint \in JsonViews
         /\ ~IsJson(response[r].reply.body))
        => /\ response[r].status >= 500
           /\ response[r].body = Text("error page")
           /\ sent[r] = 1

\* C9, amended: on a JSON-forwarding route, a backend body that is neither
\* JSON nor JSON but for NaN ends in a 500 error page, after one outbound
\* request.
C9_UndecodableReplyIs500 ==
    \A r \in Req :
        (/\ Relayed(r)
         /\ response[r].endpoint \in JsonViews
         /\ ~IsJson(response[r].reply.body)
         /\ ~IsJsonButForNaN(response[r].reply.body))
        => /\ response[r].status = 500
           /\ response[r].body = Text("error page")
           /\ sent[r] = 1

\* C9's case: the backend answered a JSON view with a body that is not
\* JSON, and the caller got the 500 page.
C9_Witness ==
    \E r \in Req :
        /\ Relayed(r)
        /\ response[r].endpoint \in JsonViews
        /\ response[r].reply.body \in {Garbage, Bytes("PNG")}
        /\ response[r].status = 500
        /\ sent[r] = 1

\* What a response shows its caller.
Visible(resp) == <<resp.status, resp.ctype, resp.body>>

\* What an outbound request shows the backend.
OnTheWire(m) == <<m.method, m.base, m.path, m.query, m.ctype, m.body>>

\* What a reply holds.
Content(reply) ==
    IF reply.t = "reply" THEN <<reply.status, reply.ctype, reply.body>>
    ELSE <<reply.t>>

\* C10: no state is carried between requests.  An idle worker holds
\* nothing of the request it served before; an outbound request goes out on
\* its worker's own connection and is decided by the inbound request that
\* caused it; a response is built from the reply to the worker's own
\* outbound request, and is decided by the view and that reply.
C10_RequestsAreIsolated ==
    /\ \A r \in Req :
          /\ pc[r] = "idle" =>
                /\ outWire[r] = NoMsg /\ inWire[r] = NoMsg
                /\ response[r] = NoMsg /\ sent[r] = 0
          /\ outWire[r] # NoMsg => outWire[r].conn = r
          /\ Relayed(r) => response[r].reply.answers = r
    /\ \A r1, r2 \in Req :
          /\ (outWire[r1] # NoMsg /\ outWire[r2] # NoMsg
                 /\ outWire[r1].cause = outWire[r2].cause)
              => OnTheWire(outWire[r1]) = OnTheWire(outWire[r2])
          /\ (/\ pc[r1] = "done" /\ pc[r2] = "done"
               /\ response[r1].endpoint = response[r2].endpoint
               /\ response[r1].cause = NoMsg /\ response[r2].cause = NoMsg
               /\ Content(response[r1].reply) = Content(response[r2].reply))
              => Visible(response[r1]) = Visible(response[r2])
          /\ (/\ pc[r1] = "done" /\ pc[r2] = "done"
               /\ response[r1].cause # NoMsg
               /\ response[r1].cause = response[r2].cause)
              => Visible(response[r1]) = Visible(response[r2])

\* C10's case: two workers have answered at the same time, from different
\* replies to different views, each from the reply to its own request.
C10_Witness ==
    \E r1, r2 \in Req :
        /\ r1 # r2
        /\ Relayed(r1) /\ Relayed(r2)
        /\ response[r1].endpoint # response[r2].endpoint
        /\ response[r1].reply.body # response[r2].reply.body
        /\ response[r1].reply.answers = r1
        /\ response[r2].reply.answers = r2

====
